---- MODULE Spec2Model ----
(***************************************************************************)
(* Feature extraction of ataurus (authorship attribution):                 *)
(*   ataurus/features/functions.py  punctuations_distribution,             *)
(*                                  foreign_words_ratio,                   *)
(*                                  vocabulary_richness, pos_distribution  *)
(*   ataurus/main.py                main (train / predict / info)          *)
(*                                                                         *)
(* Characters are one-element strings.  The tools read ASCII only, so a    *)
(* Cyrillic letter is written "cy_x" (x its transliteration) and the line  *)
(* feed is written "LF".  A text is a sequence of characters.  A Python    *)
(* number is a record with a numerator and a denominator, so that ratios   *)
(* are exact.                                                              *)
(***************************************************************************)
EXTENDS Integers, Sequences, FiniteSets, TLC

VARIABLES
    pc,            \* "start" before the call of a function, "done" after it; "main" in the pipeline
    text,          \* punctuations_distribution: the argument (its characters)
    textNone,      \* punctuations_distribution: TRUE when the argument is None
    distribution,  \* punctuations_distribution: what the call produced
    tokens,        \* foreign_words_ratio: the argument
    ratio,         \* foreign_words_ratio: what the call produced
    words,         \* vocabulary_richness: the argument
    richness,      \* vocabulary_richness: what the call produced
    morph,         \* the morphological analyser: token -> (POS, normal form)
    POS,           \* functions.POS, the module-level list of POS labels
    batch,         \* pos_distribution: the argument, one token list per text
    matrix,        \* pos_distribution: what the call produced
    command,       \* main: configurator.command of the last run
    cache,         \* main: the extractor written by configurator.to_cache
    outcome,       \* main: how the last run ended
    model          \* main: the saved model

vars == <<pc, text, textNone, distribution, tokens, ratio, words, richness,
          morph, POS, batch, matrix, command, cache, outcome, model>>

punctVars == <<text, textNone, distribution>>
foreignVars == <<tokens, ratio>>
richnessVars == <<words, richness>>
posVars == <<batch, matrix>>
mainVars == <<command, cache, outcome, model>>

(***************************************************************************)
(* Bounds                                                                  *)
(***************************************************************************)
MaxTextLen == 4

MaxTokenLen == 2

MaxTokens == 2

MaxWords == 3

MaxBatch == 2

MaxTextTokens == 2

MaxCorpus == 2

(***************************************************************************)
(* Python values                                                           *)
(***************************************************************************)
Float(n, d) == [kind |-> "number", num |-> n, den |-> d]

Zero == Float(0, 1)

None == [kind |-> "None", num |-> 0, den |-> 1]

ZeroDivisionError == [kind |-> "ZeroDivisionError", num |-> 0, den |-> 1]

TrueDiv(n, d) == IF d = 0 THEN ZeroDivisionError ELSE Float(n, d)

IsNumber(v) == v.kind = "number"

\* v = n/d for a number v
Equals(v, n, d) == IsNumber(v) /\ v.num * d = n * v.den

InUnitInterval(v) == IsNumber(v) /\ 0 <= v.num /\ v.num <= v.den

SeqsUpTo(S, n) == UNION {[1..k -> S] : k \in 0..n}

(***************************************************************************)
(* The compiled patterns of functions.py, lines 11-21                      *)
(***************************************************************************)
At(s, i) == IF i >= 1 /\ i <= Len(s) THEN s[i] ELSE "EOS"

\* the length of the run of characters of class C that starts at i, at most max
RunLen(s, i, C, max) ==
    LET run[k \in 0..max] ==
            IF k < max /\ At(s, i + k) \in C THEN run[k + 1] ELSE k
    IN  run[0]

EndingChars == {".", "?", "!", "ellipsis"}

DashChars == {"figure_dash", "en_dash", "em_dash", "minus", "-"}

\* razdel.segmenters.punct.BRACKETS and QUOTES, in their order
BRACKETS == <<"(", "[", "{", ")", "]", "}">>

QUOTES == <<"laquo", "ldquo", "lsquo", "raquo", "rdquo", "rsquo", "dquote", "low_dquote", "squote">>

\* DEFINITIVE_PUNCTS: (...)|(\?!)|(\?\.{2,3})|(!\.{2,3})|(!!!)|([....?!])
\* the first alternative is three unescaped dots: any three characters but LF
DEFINITIVE_PUNCTS(s, i) ==
    LET dots == RunLen(s, i + 1, {"."}, 3)
    IN  IF /\ i + 2 <= Len(s)
           /\ \A k \in 0..2 : s[i + k] # "LF" THEN 3
        ELSE IF s[i] = "?" /\ At(s, i + 1) = "!" THEN 2
        ELSE IF s[i] = "?" /\ dots >= 2 THEN 1 + dots
        ELSE IF s[i] = "!" /\ dots >= 2 THEN 1 + dots
        ELSE IF s[i] = "!" /\ At(s, i + 1) = "!" /\ At(s, i + 2) = "!" THEN 3
        ELSE IF s[i] \in EndingChars THEN 1
        ELSE 0

\* DIVIDING_PUNCTS: [,;:<dashes>-]
DIVIDING_PUNCTS(s, i) == IF s[i] \in {",", ";", ":"} \cup DashChars THEN 1 ELSE 0

\* HIGHLIGHT_PUNCTS: '[' BRACKETS QUOTES ']'.  The "]" of BRACKETS closes the
\* character class after "([{)", and what follows it is matched literally.
HIGHLIGHT_PUNCTS(s, i) ==
    LET literal == <<"}">> \o QUOTES \o <<"]">>
    IN  IF /\ s[i] \in {"(", "[", "{", ")"}
           /\ \A k \in 1..Len(literal) : At(s, i + k) = literal[k]
        THEN 1 + Len(literal)
        ELSE 0

\* SMILES_PUNCTS: razdel's SMILES, [=:;]-?[)(]{1,3}
SMILES_PUNCTS(s, i) ==
    LET dash == IF At(s, i + 1) = "-" THEN 1 ELSE 0
        mouth == RunLen(s, i + 1 + dash, {")", "("}, 3)
    IN  IF s[i] \in {"=", ":", ";"} /\ mouth >= 1 THEN 1 + dash + mouth ELSE 0

\* DIGITS_PUNCTS: [+$/*%^]
DIGITS_PUNCTS(s, i) == IF s[i] \in {"+", "$", "/", "*", "%", "^"} THEN 1 ELSE 0

PunctuationChars ==
    {",", ";", ":", "=", "+", "$", "/", "*", "%", "^"} \cup DashChars
        \cup {BRACKETS[k] : k \in 1..Len(BRACKETS)} \cup {QUOTES[k] : k \in 1..Len(QUOTES)}

\* ataurus.preparing.rules.PUNCTUATIONS, the master pattern: a run of
\* sentence-final characters is one mark, any other punctuation character is
\* one mark
PUNCTUATIONS(s, i) ==
    IF s[i] \in EndingChars THEN RunLen(s, i, EndingChars, Len(s))
    ELSE IF s[i] \in PunctuationChars THEN 1
    ELSE 0

LatinChars == {"h", "e", "l", "o"}

CyrillicChars == {"cy_m", "cy_i", "cy_r"}

DigitChars == {"1"}

\* \w: letters, digits and the underscore
WordChars == LatinChars \cup CyrillicChars \cup DigitChars \cup {"_"}

\* [^\s\d\W<Cyrillic a-ya, yo>_]: a word character that is no digit, no
\* Cyrillic letter and no underscore
ForeignChars == {c \in WordChars : c \notin DigitChars /\ c \notin CyrillicChars /\ c # "_"}

\* the pattern without its two \b
FOREIGN_WORD_Unanchored(s, i) == RunLen(s, i, ForeignChars, Len(s))

\* FOREIGN_WORD: \b[...]+\b.  Every character of the class is a word character,
\* so \b holds before the run only at the start of a word and after the run
\* only at the end of a word; a shorter run ends inside the word.
FOREIGN_WORD(s, i) ==
    LET n == RunLen(s, i, ForeignChars, Len(s))
    IN  IF /\ n >= 1
           /\ At(s, i - 1) \notin WordChars
           /\ At(s, i + n) \notin WordChars
        THEN n
        ELSE 0

(***************************************************************************)
(* re: Match(pattern, s, i) is the length of the match the compiled        *)
(* pattern finds at position i of s, 0 for no match.                       *)
(***************************************************************************)
Match(pattern, s, i) ==
    CASE pattern = "DEFINITIVE_PUNCTS" -> DEFINITIVE_PUNCTS(s, i)
      [] pattern = "DIVIDING_PUNCTS" -> DIVIDING_PUNCTS(s, i)
      [] pattern = "HIGHLIGHT_PUNCTS" -> HIGHLIGHT_PUNCTS(s, i)
      [] pattern = "SMILES_PUNCTS" -> SMILES_PUNCTS(s, i)
      [] pattern = "DIGITS_PUNCTS" -> DIGITS_PUNCTS(s, i)
      [] pattern = "PUNCTUATIONS" -> PUNCTUATIONS(s, i)
      [] pattern = "FOREIGN_WORD" -> FOREIGN_WORD(s, i)

\* len(pattern.findall(s)): leftmost, non-overlapping scan of s
Findall(pattern, s) ==
    LET count[i \in 1..(Len(s) + 1)] ==
            IF i > Len(s) THEN 0
            ELSE LET n == Match(pattern, s, i)
                 IN  IF n > 0 THEN 1 + count[i + n] ELSE count[i + 1]
    IN  count[1]

\* pattern.search(s) is not None
Search(pattern, s) == \E i \in 1..Len(s) : Match(pattern, s, i) > 0

(***************************************************************************)
(* punctuations_distribution                                               *)
(***************************************************************************)
\* the division without its guard
CategoryRatioUnguarded(count, all_count) == TrueDiv(count, all_count)

\* len(P.findall(text)) / all_count if all_count else 0
CategoryRatio(count, all_count) == IF all_count # 0 THEN TrueDiv(count, all_count) ELSE Zero

Entry(name, value) == [key |-> name, value |-> value]

Raised(items) == \E k \in 1..Len(items) : items[k].value.kind = "ZeroDivisionError"

columns == <<"definitive_puncts", "dividing_puncts", "highlight_puncts", "smiles_puncts">>

\* dict.fromkeys(columns, 0)
FromKeys(keys, value) == [k \in 1..Len(keys) |-> Entry(keys[k], value)]

\* the dict of a call, its keys in insertion order; raised when a division failed
punctuations_distribution(isNone, t) ==
    IF isNone \/ t = <<>> THEN [raised |-> FALSE, items |-> FromKeys(columns, Zero)]
    ELSE LET all_count == Findall("PUNCTUATIONS", t)
             items == <<
                 Entry("definitive_puncts", CategoryRatio(Findall("DEFINITIVE_PUNCTS", t), all_count)),
                 Entry("dividing_puncts", CategoryRatio(Findall("DIVIDING_PUNCTS", t), all_count)),
                 Entry("highlight_puncts", CategoryRatio(Findall("HIGHLIGHT_PUNCTS", t), all_count)),
                 Entry("smiles_puncts", CategoryRatio(Findall("SMILES_PUNCTS", t), all_count)),
                 Entry("digits_puncts", CategoryRatio(Findall("DIGITS_PUNCTS", t), all_count)) >>
         IN  IF Raised(items) THEN [raised |-> TRUE, items |-> <<>>]
             ELSE [raised |-> FALSE, items |-> items]

(***************************************************************************)
(* Inputs of punctuations_distribution                                     *)
(***************************************************************************)
TextAlphabet == {"a", ",", ".", "!", "?", ":", ")", "+", "LF"}

\* "Privet, mir!!!" (the letters transliterated; no pattern tells them apart)
HelloWorld == <<"P", "r", "i", "v", "e", "t", ",", " ", "m", "i", "r", "!", "!", "!">>

Texts == SeqsUpTo(TextAlphabet, MaxTextLen) \cup {HelloWorld}

(***************************************************************************)
(* foreign_words_ratio                                                     *)
(***************************************************************************)
foreign_words_ratio(toks) ==
    IF toks = <<>> THEN None
    ELSE LET foreign == SelectSeq(toks, LAMBDA token : Search("FOREIGN_WORD", token))
         IN  TrueDiv(Len(foreign), Len(toks))

(***************************************************************************)
(* The morphological analyser: morph.parse(x)[0]                           *)
(***************************************************************************)
Vocabulary == {"kot", "koty", "bezhit", ","}

Lemmas == {"kot", "bezhat", ","}

\* pymorphy2's TagClass.PARTS_OF_SPEECH, two of its labels
PARTS_OF_SPEECH == {"NOUN", "VERB"}

NoPOS == "None"

Parsed(pos, lemma) == [POS |-> pos, normal_form |-> lemma]

\* the analyser of the installed dictionary
Pymorphy ==
    [x \in Vocabulary |->
        CASE x = "kot" -> Parsed("NOUN", "kot")
          [] x = "koty" -> Parsed("NOUN", "kot")
          [] x = "bezhit" -> Parsed("VERB", "bezhat")
          [] OTHER -> Parsed(NoPOS, ",")]

\* an analyser whose tags are not those of PARTS_OF_SPEECH: "INFN" is unknown to it
StaleAnalyser == [Pymorphy EXCEPT !["bezhit"] = Parsed("INFN", "bezhat")]

\* analysers that differ from Pymorphy in the normal forms only
Analysers ==
    {[x \in Vocabulary |-> Parsed(Pymorphy[x].POS, nf[x])] : nf \in [Vocabulary -> Lemmas]}

Parse(m, x) == m[x]

\* Counter(items)[key]
Counter(items, key) == Cardinality({k \in 1..Len(items) : items[k] = key})

\* the keys of Counter(items)
CounterKeys(items) == {items[k] : k \in 1..Len(items)}

RECURSIVE SumValues(_, _)
\* sum(counter.values())
SumValues(items, keys) ==
    IF keys = {} THEN 0
    ELSE LET key == CHOOSE k \in keys : TRUE
         IN  Counter(items, key) + SumValues(items, keys \ {key})

(***************************************************************************)
(* vocabulary_richness                                                     *)
(***************************************************************************)
\* the tokens counted as they are, not lemmatized
SurfaceTokens(m, toks) == toks

NormalTokens(m, toks) == [k \in 1..Len(toks) |-> Parse(m, toks[k]).normal_form]

vocabulary_richness(m, toks) ==
    IF toks = <<>> THEN None
    ELSE LET normal_tokens == NormalTokens(m, toks)
         IN  TrueDiv(Cardinality(CounterKeys(normal_tokens)), Len(toks))

(***************************************************************************)
(* pos_distribution                                                        *)
(***************************************************************************)
\* the POS of the tokens of one text, None kept
PosTokensUnfiltered(m, toks) == [k \in 1..Len(toks) |-> Parse(m, toks[k]).POS]

\* the POS of the tokens of one text, those that are None left out
PosTokens(m, toks) ==
    SelectSeq([k \in 1..Len(toks) |-> Parse(m, toks[k]).POS], LAMBDA pos : pos # NoPOS)

\* the labels taken from the text: those of POS that its Counter holds
PosColumnsOfText(pos_list, pos_tokens) ==
    SelectSeq(pos_list, LAMBDA pos : pos \in CounterKeys(pos_tokens))

\* the labels the inner loop runs over: for pos in POS
PosColumns(pos_list, pos_tokens) == pos_list

\* result_ of one text
PosRow(m, pos_list, toks) ==
    LET pos_tokens == PosTokens(m, toks)
        all_count == SumValues(pos_tokens, CounterKeys(pos_tokens))
        labels == PosColumns(pos_list, pos_tokens)
    IN  [j \in 1..Len(labels) |-> TrueDiv(Counter(pos_tokens, labels[j]), all_count)]

\* np.array(result), or the exception of the first division by zero
pos_distribution(m, pos_list, texts) ==
    LET result == [r \in 1..Len(texts) |-> PosRow(m, pos_list, texts[r])]
    IN  IF \E r \in 1..Len(result) : \E j \in 1..Len(result[r]) :
               result[r][j].kind = "ZeroDivisionError"
        THEN [raised |-> TRUE, rows |-> <<>>]
        ELSE [raised |-> FALSE, rows |-> result]

(***************************************************************************)
(* Inputs                                                                  *)
(***************************************************************************)
TokenAlphabet == {"h", "cy_m", "-"}

Hello == <<"h", "e", "l", "l", "o">>

Mir == <<"cy_m", "cy_i", "cy_r">>

\* the segmenter hands over no empty token
Tokens == (SeqsUpTo(TokenAlphabet, MaxTokenLen) \ {<<>>}) \cup {Hello, Mir, <<"1">>, <<"h", "1">>, <<"_">>, <<"h", "_">>}

TokenLists == SeqsUpTo(Tokens, MaxTokens)

WordLists == SeqsUpTo(Vocabulary, MaxWords)

\* the tokens of the batches: two words and a punctuation mark
TextVocabulary == {"kot", "bezhit", ","}

Batches == SeqsUpTo(SeqsUpTo(TextVocabulary, MaxTextTokens), MaxBatch)

\* list(frozenset): the labels of PARTS_OF_SPEECH in the order of the hash seed
PosOrders ==
    {o \in [1..Cardinality(PARTS_OF_SPEECH) -> PARTS_OF_SPEECH] :
        \A i, j \in DOMAIN o : i # j => o[i] # o[j]}

\* the texts a DataFrame is made of, as token lists
CorpusTexts == {<<"kot">>, <<"bezhit", ",">>, <<"kot", "bezhit">>, <<",">>}

\* the token lists of a DataFrame: at least one text
Corpora == SeqsUpTo(CorpusTexts, MaxCorpus) \ {<<>>}

Pending == [kind |-> "pending", num |-> 0, den |-> 1]

NoDistribution == [raised |-> FALSE, items |-> <<>>]

NoMatrix == [raised |-> FALSE, rows |-> <<>>]

NoExtractor == [present |-> FALSE, tokens |-> <<>>, X |-> NoMatrix]

NoModel == [present |-> FALSE, columns |-> 0, samples |-> 0]

PunctIdle == text = <<>> /\ textNone = FALSE /\ distribution = NoDistribution

ForeignIdle == tokens = <<>> /\ ratio = Pending

RichnessIdle == words = <<>> /\ richness = Pending

PosIdle == batch = <<>> /\ matrix = NoMatrix

MainIdle == command = "" /\ cache = NoExtractor /\ outcome = "" /\ model = NoModel

\* module import: POS = list(pymorphy2.MorphAnalyzer().TagClass.PARTS_OF_SPEECH)
Import == POS \in PosOrders

\* the same, for the functions that do not read POS: one order stands for all
ImportAny == POS = CHOOSE o \in PosOrders : TRUE

(***************************************************************************)
(* punctuations_distribution(text)                                         *)
(***************************************************************************)
InitPunct ==
    /\ pc = "start"
    /\ textNone \in BOOLEAN
    /\ text \in (IF textNone THEN {<<>>} ELSE Texts)
    /\ distribution = NoDistribution
    /\ ForeignIdle /\ RichnessIdle /\ PosIdle /\ MainIdle
    /\ morph = Pymorphy
    /\ ImportAny

CallPunctuationsDistribution ==
    /\ pc = "start"
    /\ pc' = "done"
    /\ distribution' = punctuations_distribution(textNone, text)
    /\ UNCHANGED <<text, textNone, foreignVars, richnessVars, morph, POS, posVars, mainVars>>

NextPunct == CallPunctuationsDistribution

SpecPunct == InitPunct /\ [][NextPunct]_vars

(***************************************************************************)
(* foreign_words_ratio(tokens)                                             *)
(***************************************************************************)
InitForeign ==
    /\ pc = "start"
    /\ tokens \in TokenLists
    /\ ratio = Pending
    /\ PunctIdle /\ RichnessIdle /\ PosIdle /\ MainIdle
    /\ morph = Pymorphy
    /\ ImportAny

CallForeignWordsRatio ==
    /\ pc = "start"
    /\ pc' = "done"
    /\ ratio' = foreign_words_ratio(tokens)
    /\ UNCHANGED <<tokens, punctVars, richnessVars, morph, POS, posVars, mainVars>>

NextForeign == CallForeignWordsRatio

SpecForeign == InitForeign /\ [][NextForeign]_vars

(***************************************************************************)
(* vocabulary_richness(tokens)                                             *)
(***************************************************************************)
InitRichness ==
    /\ pc = "start"
    /\ words \in WordLists
    /\ richness = Pending
    /\ PunctIdle /\ ForeignIdle /\ PosIdle /\ MainIdle
    /\ morph \in Analysers
    /\ ImportAny

CallVocabularyRichness ==
    /\ pc = "start"
    /\ pc' = "done"
    /\ richness' = vocabulary_richness(morph, words)
    /\ UNCHANGED <<words, punctVars, foreignVars, morph, POS, posVars, mainVars>>

NextRichness == CallVocabularyRichness

SpecRichness == InitRichness /\ [][NextRichness]_vars

(***************************************************************************)
(* pos_distribution(tokens)                                                *)
(***************************************************************************)
InitPosWith(analyser) ==
    /\ pc = "start"
    /\ batch \in Batches
    /\ matrix = NoMatrix
    /\ PunctIdle /\ ForeignIdle /\ RichnessIdle /\ MainIdle
    /\ morph = analyser
    /\ Import

InitPos == InitPosWith(Pymorphy)

InitStale == InitPosWith(StaleAnalyser)

CallPosDistribution ==
    /\ pc = "start"
    /\ pc' = "done"
    /\ matrix' = pos_distribution(morph, POS, batch)
    /\ UNCHANGED <<batch, punctVars, foreignVars, richnessVars, morph, POS, mainVars>>

NextPos == CallPosDistribution

SpecPos == InitPos /\ [][NextPos]_vars

\* the same call, the analyser's tags not those POS was built from
SpecStale == InitStale /\ [][NextPos]_vars

(***************************************************************************)
(* main(): the runs of one pipeline                                        *)
(***************************************************************************)
\* FeaturesExtractor().fit(tokens, sentences, authors): the POS columns of X
Fit(m, pos_list, texts) ==
    [present |-> TRUE, tokens |-> texts, X |-> pos_distribution(m, pos_list, texts)]

\* the number of columns of a matrix with at least one row
Width(X_) == Len(X_.rows[1])

\* configurator.input: a DataFrame, or the extractor of the cache
Inputs ==
    {[kind |-> "DataFrame", texts |-> c] : c \in Corpora}
        \cup {[kind |-> "FeaturesExtractor", texts |-> <<>>]}

\* lines 12-18: the extractor of a train or predict run
Extractor(input) ==
    IF input.kind = "FeaturesExtractor" THEN cache ELSE Fit(morph, POS, input.texts)

\* Model().fit(X, y) and model.save(output_file)
ModelFit(X_) == [present |-> TRUE, columns |-> Width(X_), samples |-> Len(X_.rows)]

\* model.predict(X)
ModelPredict(mdl, X_) ==
    IF ~mdl.present THEN "no model"
    ELSE IF mdl.columns # Width(X_) THEN "ValueError"
    ELSE "predicted"

Init ==
    /\ pc = "main"
    /\ PunctIdle /\ ForeignIdle /\ RichnessIdle /\ PosIdle /\ MainIdle
    /\ morph = Pymorphy
    /\ Import

Train ==
    \E input \in Inputs :
        /\ input.kind = "FeaturesExtractor" => cache.present
        /\ command' = "train"
        /\ LET extractor == Extractor(input)
           IN  IF extractor.X.raised
               THEN /\ outcome' = "ZeroDivisionError"
                    /\ UNCHANGED <<cache, model>>
               ELSE /\ cache' = extractor
                    /\ model' = ModelFit(extractor.X)
                    /\ outcome' = "trained"
        /\ UNCHANGED <<pc, punctVars, foreignVars, richnessVars, morph, POS, posVars>>

Predict ==
    \E input \in Inputs :
        /\ input.kind = "FeaturesExtractor" => cache.present
        /\ command' = "predict"
        /\ LET extractor == Extractor(input)
           IN  IF extractor.X.raised
               THEN /\ outcome' = "ZeroDivisionError"
                    /\ UNCHANGED cache
               ELSE /\ cache' = extractor
                    /\ outcome' = ModelPredict(model, extractor.X)
        /\ UNCHANGED <<pc, model, punctVars, foreignVars, richnessVars, morph, POS, posVars>>

Info ==
    /\ model.present
    /\ command' = "info"
    /\ outcome' = "info"
    /\ UNCHANGED <<pc, cache, model, punctVars, foreignVars, richnessVars, morph, POS, posVars>>

Next == Train \/ Predict \/ Info

Spec == Init /\ [][Next]_vars

(***************************************************************************)
(* Properties of punctuations_distribution (under SpecPunct)               *)
(***************************************************************************)
Categories ==
    <<"definitive_puncts", "dividing_puncts", "highlight_puncts", "smiles_puncts", "digits_puncts">>

Keys(items) == [k \in 1..Len(items) |-> items[k].key]

HasKey(items, name) == \E k \in 1..Len(items) : items[k].key = name

ValueOf(items, name) == items[CHOOSE k \in 1..Len(items) : items[k].key = name].value

\* the number of maximal runs of sentence-final characters
EndingRuns(s) ==
    Cardinality({i \in 1..Len(s) : s[i] \in EndingChars /\ At(s, i - 1) \notin EndingChars})

NonEmptyText == ~textNone /\ text # <<>>

\* C1: for every non-empty text with punctuation, definitive_puncts is the
\* number of runs of sentence-final characters over the total punctuation
\* count; "Privet, mir!!!" gives definitive 0.5, dividing 0.5 and 0 for the
\* three other categories.
C1_DefinitiveRunCountedOnce ==
    (pc = "done" /\ NonEmptyText /\ Findall("PUNCTUATIONS", text) > 0) =>
        /\ ~distribution.raised
        /\ HasKey(distribution.items, "definitive_puncts")
        /\ Equals(ValueOf(distribution.items, "definitive_puncts"),
                  EndingRuns(text), Findall("PUNCTUATIONS", text))
        /\ text = HelloWorld =>
              /\ Equals(ValueOf(distribution.items, "definitive_puncts"), 1, 2)
              /\ Equals(ValueOf(distribution.items, "dividing_puncts"), 1, 2)
              /\ Equals(ValueOf(distribution.items, "highlight_puncts"), 0, 1)
              /\ Equals(ValueOf(distribution.items, "smiles_puncts"), 0, 1)
              /\ Equals(ValueOf(distribution.items, "digits_puncts"), 0, 1)

\* C3: every call returns the five categories as its keys, in the same
\* order, the call on an empty or None text included.
C3_SameKeysForEveryText ==
    pc = "done" => (~distribution.raised /\ Keys(distribution.items) = Categories)

\* C4: every value of the returned mapping lies in [0, 1].
C4_ValuesInUnitInterval ==
    pc = "done" =>
        /\ ~distribution.raised
        /\ \A k \in 1..Len(distribution.items) : InUnitInterval(distribution.items[k].value)

HasForeignWord(token) ==
    \E i \in 1..Len(token) : \E j \in i..Len(token) :
        /\ \A k \in i..j : token[k] \in ForeignChars
        /\ i > 1 => token[i - 1] \notin WordChars
        /\ j < Len(token) => token[j + 1] \notin WordChars

ForeignCount(toks) == Cardinality({k \in 1..Len(toks) : HasForeignWord(toks[k])})

\* C8: the result is None exactly for the empty list; for any other list it
\* is the number of tokens holding a foreign word over the number of tokens,
\* a value in [0, 1]; ["hello", "mir"] gives 0.5.
C8_ForeignWordsRatio ==
    pc = "done" =>
        /\ (ratio = None) <=> (tokens = <<>>)
        /\ tokens # <<>> =>
              /\ Equals(ratio, ForeignCount(tokens), Len(tokens))
              /\ InUnitInterval(ratio)
        /\ tokens = <<Hello, Mir>> => Equals(ratio, 1, 2)

\* ["hello", "mir"] was processed
C8_Witness == pc = "done" /\ tokens = <<Hello, Mir>> /\ Equals(ratio, 1, 2)

(***************************************************************************)
(* Properties of vocabulary_richness (under SpecRichness)                  *)
(***************************************************************************)
NormalForm(k) == morph[words[k]].normal_form

\* the tokens whose normal form no earlier token has
FirstOccurrences == {k \in 1..Len(words) : \A j \in 1..(k - 1) : NormalForm(j) # NormalForm(k)}

PairwiseDistinct == \A j, k \in 1..Len(words) : j # k => NormalForm(j) # NormalForm(k)

\* C7: for a non-empty list the result is the number of distinct normal
\* forms over the number of all tokens, a value in (0, 1], and it is 1 exactly
\* when the normal forms are pairwise distinct.
C7_VocabularyRichness ==
    (pc = "done" /\ words # <<>>) =>
        /\ Equals(richness, Cardinality(FirstOccurrences), Len(words))
        /\ richness.den = Len(words)
        /\ 0 < richness.num /\ richness.num <= richness.den
        /\ Equals(richness, 1, 1) <=> PairwiseDistinct

\* two different tokens of one normal form and a punctuation token were counted
C7_Witness ==
    /\ pc = "done"
    /\ \E j, k \in 1..Len(words) : words[j] # words[k] /\ NormalForm(j) = NormalForm(k)
    /\ \E k \in 1..Len(words) : words[k] = ","
    /\ Equals(richness, 2, 3)

(***************************************************************************)
(* Properties of pos_distribution (under SpecPos and SpecStale)            *)
(***************************************************************************)
Resolvable(toks) == {k \in 1..Len(toks) : morph[toks[k]].POS # NoPOS}

Labelled(toks, label) == {k \in 1..Len(toks) : morph[toks[k]].POS = label}

RECURSIVE SumNum(_, _)
\* the sum of the numerators of the first n cells of a row
SumNum(row, n) == IF n = 0 THEN 0 ELSE row[n].num + SumNum(row, n - 1)

\* the row is that of the text: one cell per label of POS, in its order,
\* each the share of the label among the tokens of resolvable POS
RowOfText(row, toks) ==
    /\ Len(row) = Len(POS)
    /\ \A j \in 1..Len(POS) :
          Equals(row[j], Cardinality(Labelled(toks, POS[j])), Cardinality(Resolvable(toks)))

\* C2: a text without a token of resolvable POS gets a row of the missing
\* value in every column; the call raises nothing and returns a row for
\* every text of the batch.
C2_DegenerateTextGetsSentinelRow ==
    pc = "done" =>
        /\ ~matrix.raised
        /\ Len(matrix.rows) = Len(batch)
        /\ \A r \in 1..Len(batch) :
              Resolvable(batch[r]) = {} =>
                  /\ Len(matrix.rows[r]) = Len(POS)
                  /\ \A j \in 1..Len(POS) : matrix.rows[r][j].kind = "nan"

====
